---- MODULE Spec2Model ----
(***************************************************************************)
(* NameHarvester (IVY_Code_API_Extraction.py): recursive prefix crawl of   *)
(* an autocomplete API, with retry on HTTP 429, per-version query metrics  *)
(* and a sorted text dump of the discovered entries.                       *)
(*                                                                         *)
(* Strings that the program compares or sorts (prefixes, entries) are      *)
(* sequences of one-character strings, so that sorted() is computed.       *)
(* The call stack of crawl is the variable stack (top = last element).     *)
(* pc is "harvest" while start_harvesting loops, "save" before             *)
(* _save_results, "done" after it returned, "io_failed" when it raised and *)
(* "crashed" when an exception left _perform_query uncaught.               *)
(***************************************************************************)
EXTENDS Integers, Sequences, FiniteSets, TLC

\* ---------------------------------------------------------------- bounds
\* number of seed letters of ascii_lowercase the harvest loop runs over
NumSeeds == 2
\* largest recursion_limit / retry_limit the constructor is given
MaxDepth == 1
MaxAttempts == 1
\* number of _perform_query calls per run that see a failing response
MaxFailedQueries == 1

\* ------------------------------------------------------- program constants
ascii_lowercase ==
  << "a", "b", "c", "d", "e", "f", "g", "h", "i", "j", "k", "l", "m",
     "n", "o", "p", "q", "r", "s", "t", "u", "v", "w", "x", "y", "z" >>
\* HTTP status the retry loop treats as rate limiting
RATE_LIMITED == 429
\* a status raise_for_status() lets pass
OK == 200

\* the suggestion strings the API can return
Entries == { <<"a">>, <<"a", "b">> }
\* longest "results" list of a response: room for every entry, or for one
\* entry twice
MaxResults == Cardinality(Entries)
\* the strings a table API can return: the entries and a seed letter
TableEntries == Entries \cup { <<"b">> }
\* api_list values given to the constructor
ApiLists == { <<"v1", "v2">>, <<"v3">> }
\* HTTP error statuses other than 429 that raise_for_status() raises for
OtherErrorStatuses == {500}

VARIABLES
  supported_apis,     \* self.supported_apis
  max_attempts,       \* self.max_attempts
  depth_limit,        \* self.depth_limit
  seed_order,         \* per version, the order its seed loop takes
  api_table,          \* the API when it is a fixed table prefix -> results,
                      \* the empty function when it answers freely
  discovered_entries, \* self.discovered_entries
  api_query_metrics,  \* self.api_query_metrics
  pc,                 \* position of start_harvesting
  vi,                 \* index of `version` in the loop of start_harvesting
  ci,                 \* index of the next `character` of that loop
  stack,              \* the active crawl calls, outermost first
  output_file,        \* lines of harvested_entries.txt
  issued,             \* history: requests.get calls made, per version
  calls,              \* history: _perform_query calls made, per version
  recursed,           \* history: recursive crawl calls made, per version and entry
  inserted_level,     \* history: level of the frame that added the entry, per version
  failed_queries,     \* history: _perform_query calls that saw a failure
  returned,           \* history: entries of the "results" of 2xx responses, per version
  event               \* history: what the last step did

vars == << supported_apis, max_attempts, depth_limit, seed_order, api_table,
           discovered_entries,
           api_query_metrics, pc, vi, ci, stack, output_file, issued, calls,
           recursed, inserted_level, failed_queries, returned, event >>

config == << supported_apis, max_attempts, depth_limit, seed_order, api_table >>

\* ---------------------------------------------------------------- helpers
Range(s) == { s[i] : i \in 1..Len(s) }

SeqsUpTo(S, n) == UNION { [1..k -> S] : k \in 0..n }

Versions == Range(supported_apis)

Seeds == SubSeq(ascii_lowercase, 1, NumSeeds)

CharRank(c) == CHOOSE i \in 1..Len(ascii_lowercase) : ascii_lowercase[i] = c

\* str.__lt__ : lexicographic by code point, a proper prefix is smaller
RECURSIVE StrLess(_, _)
StrLess(s, t) ==
  IF t = <<>> THEN FALSE
  ELSE IF s = <<>> THEN TRUE
  ELSE IF Head(s) = Head(t) THEN StrLess(Tail(s), Tail(t))
  ELSE CharRank(Head(s)) < CharRank(Head(t))

\* mutant: the entries come out in descending order
RECURSIVE sorted_Descending(_)
sorted_Descending(S) ==
  IF S = {} THEN <<>>
  ELSE LET m == CHOOSE x \in S : \A y \in S \ {x} : StrLess(y, x)
       IN  <<m>> \o sorted_Descending(S \ {m})

\* sorted(set of str)
RECURSIVE sorted(_)
sorted(S) ==
  IF S = {} THEN <<>>
  ELSE LET m == CHOOSE x \in S : \A y \in S \ {x} : StrLess(x, y)
       IN  <<m>> \o sorted(S \ {m})

\* f"--- {version} ---\n" and f"{entry}\n"
HeaderLine(api) == << "--- ", api, " ---" >>
EntryLine(entry) == entry

\* the text _save_results writes for the versions apis[i..]
RECURSIVE SavedText(_, _, _)
SavedText(apis, entries, i) ==
  IF i > Len(apis) THEN <<>>
  ELSE <<HeaderLine(apis[i])>>
       \o [k \in 1..Cardinality(entries[apis[i]]) |->
             EntryLine(sorted(entries[apis[i]])[k])]
       \o SavedText(apis, entries, i + 1)

\* a response body that response.json() parses: `present` is whether the
\* object has any key at all ({} is falsy), `results` is .get("results", [])
Bodies == { [present |-> FALSE, results |-> <<>>] }
          \cup { [present |-> TRUE, results |-> r] : r \in SeqsUpTo(Entries, MaxResults) }

Frame(prefix, level) ==
  [prefix |-> prefix, level |-> level, phase |-> "enter", attempt |-> 0,
   results |-> <<>>]

Top == stack[Len(stack)]
Pop == SubSeq(stack, 1, Len(stack) - 1)
SetTop(f) == [stack EXCEPT ![Len(stack)] = f]
version == supported_apis[vi]

\* event.op names the step; for op = "request", outcome and status say what
\* requests.get gave ("ok", "http_error" with the status, "exception") and
\* sleep says which sleep() the step ran, backoff for how long a backoff sleep
\* was, in tenths of a second
NoEvent == [op |-> "none", outcome |-> "none", status |-> 0, version |-> "",
            prefix |-> <<>>, level |-> 0, attempt |-> 0, sleep |-> "none",
            backoff |-> 0]
Event(op, f, sleep) ==
  [op |-> op, outcome |-> "none", status |-> 0, version |-> version,
   prefix |-> f.prefix, level |-> f.level, attempt |-> f.attempt,
   sleep |-> sleep, backoff |-> 0]
Response(outcome, status, f, sleep) ==
  [Event("request", f, sleep) EXCEPT !.outcome = outcome, !.status = status]

\* inserted_level of an entry no frame has added
NotInserted == 0 - 1

\* what harvested_entries.txt holds before the run (a line of an earlier run)
OldFile == << <<"o", "l", "d">> >>

\* ------------------------------------------------------------------- Init
Init ==
  /\ supported_apis \in ApiLists
  /\ max_attempts \in 0..MaxAttempts
  /\ depth_limit \in 0..MaxDepth
  /\ seed_order = [api \in Range(supported_apis) |-> Seeds]
  /\ api_table = <<>>
  /\ discovered_entries = [api \in Range(supported_apis) |-> {}]
  /\ api_query_metrics = [api \in Range(supported_apis) |-> 0]
  /\ pc = "harvest"
  /\ vi = 1
  /\ ci = 1
  /\ stack = <<>>
  /\ output_file = OldFile
  /\ issued = [api \in Range(supported_apis) |-> 0]
  /\ calls = [api \in Range(supported_apis) |-> 0]
  /\ recursed = [api \in Range(supported_apis) |-> [e \in TableEntries |-> 0]]
  /\ inserted_level = [api \in Range(supported_apis) |-> [e \in TableEntries |-> NotInserted]]
  /\ failed_queries = 0
  /\ returned = [api \in Range(supported_apis) |-> {}]
  /\ event = NoEvent

\* ------------------------------------------------------- start_harvesting
\* for character in ascii_lowercase: self.crawl(version, prefix=character)
StartCrawl ==
  /\ pc = "harvest"
  /\ stack = <<>>
  /\ ci <= Len(Seeds)
  /\ stack' = << Frame(<<seed_order[version][ci]>>, 0) >>
  /\ ci' = ci + 1
  /\ event' = Event("call", Frame(<<seed_order[version][ci]>>, 0), "none")
  /\ UNCHANGED << config, discovered_entries, api_query_metrics, pc, vi,
                  output_file, issued, calls, recursed, inserted_level, failed_queries, returned >>

\* the inner loop is over: log the version's counts, take the next version;
\* after the last one log the totals and go on to _save_results
NextVersion ==
  /\ pc = "harvest"
  /\ stack = <<>>
  /\ ci > Len(Seeds)
  /\ IF vi < Len(supported_apis)
        THEN /\ vi' = vi + 1
             /\ ci' = 1
             /\ pc' = pc
        ELSE /\ pc' = "save"
             /\ UNCHANGED << vi, ci >>
  /\ event' = [NoEvent EXCEPT !.op = "version_done", !.version = version]
  /\ UNCHANGED << config, discovered_entries, api_query_metrics, stack,
                  output_file, issued, calls, recursed, inserted_level, failed_queries, returned >>

\* ------------------------------------------------------------------ crawl
\* mutant: the depth test is off by one
DepthExceeded_OffByOne(level) == level > depth_limit + 1

\* if current_level > self.depth_limit
DepthExceeded(level) == level > depth_limit

\* if current_level > self.depth_limit: return
CrawlDepthReturn ==
  /\ pc = "harvest"
  /\ stack # <<>>
  /\ Top.phase = "enter"
  /\ DepthExceeded(Top.level)
  /\ stack' = Pop
  /\ event' = Event("depth_return", Top, "none")
  /\ UNCHANGED << config, discovered_entries, api_query_metrics, pc, vi, ci,
                  output_file, issued, calls, recursed, inserted_level, failed_queries, returned >>

\* result_data = self._perform_query(api_version, prefix): entry, attempt = 0
PerformQueryCall ==
  /\ pc = "harvest"
  /\ stack # <<>>
  /\ Top.phase = "enter"
  /\ ~DepthExceeded(Top.level)
  /\ stack' = SetTop([Top EXCEPT !.phase = "query", !.attempt = 0])
  /\ calls' = [calls EXCEPT ![version] = @ + 1]
  /\ event' = Event("query", Top, "none")
  /\ UNCHANGED << config, discovered_entries, api_query_metrics, pc, vi, ci,
                  output_file, issued, recursed, inserted_level, failed_queries, returned >>

\* --------------------------------------------------------- _perform_query
\* while attempt <= self.max_attempts
RetryAllowed(attempt) == attempt <= max_attempts

\* mutant: the counter of the first configured version is incremented
CountAttempt_FirstVersion(metrics, api) ==
  [metrics EXCEPT ![supported_apis[1]] = @ + 1]

\* self.api_query_metrics[api_version] += 1
CountAttempt(metrics, api) == [metrics EXCEPT ![api] = @ + 1]

\* mutant: the attempt counter is not advanced
NextAttempt_Stuck(attempt) == attempt

\* attempt += 1
NextAttempt(attempt) == attempt + 1

\* mutant: every HTTP error status is retried
IsRateLimited_AnyError(status) == status >= 400

\* if error.response.status_code == 429
IsRateLimited(status) == status = RATE_LIMITED

\* harvester.api_query_metrics["v1"], harvester.api_query_metrics["v2"]:
\* the two subscripts of the print calls raise KeyError for a missing key
DebugPrintOk == "v1" \in DOMAIN api_query_metrics /\ "v2" \in DOMAIN api_query_metrics

\* if not result_data
Falsy(body) == ~body.present

\* one pass of the loop body up to requests.get: true when a request goes out
InAttempt ==
  /\ pc = "harvest"
  /\ stack # <<>>
  /\ Top.phase = "query"
  /\ RetryAllowed(Top.attempt)

\* the API may fail a query only while the failure budget lasts
MayFail == Top.attempt > 0 \/ failed_queries < MaxFailedQueries
Failed == IF Top.attempt = 0 THEN failed_queries + 1 ELSE failed_queries

\* the bodies the API can answer a query for prefix with
Answers(prefix) ==
  IF DOMAIN api_table = {} THEN Bodies
  ELSE { [present |-> TRUE, results |-> api_table[prefix]] }

\* requests.get succeeds, raise_for_status passes, return response.json();
\* crawl then returns on a falsy body or starts the for loop
RequestOk ==
  /\ InAttempt
  /\ \E body \in Answers(Top.prefix) :
       /\ api_query_metrics' = CountAttempt(api_query_metrics, version)
       /\ issued' = [issued EXCEPT ![version] = @ + 1]
       /\ stack' = IF Falsy(body) THEN Pop
                    ELSE SetTop([Top EXCEPT !.phase = "iterate",
                                             !.results = body.results])
       /\ returned' = [returned EXCEPT ![version] = @ \cup Range(body.results)]
       /\ event' = Response("ok", OK, Top, "none")
  /\ UNCHANGED << config, discovered_entries, pc, vi, ci, output_file, calls,
                  recursed, inserted_level, failed_queries >>

\* pause_duration=2
pause == 2

\* jitter = random.uniform(0.5, 1.5), in tenths: the two ends and the middle
Jitters == {5, 10, 15}

\* mutant: the attempt index is not raised by one
BackoffTime_NoPlusOne(attempt, jitter) == pause * attempt * jitter

\* backoff_time = self.pause * (attempt + 1) * jitter, in tenths of a second
BackoffTime(attempt, jitter) == pause * (attempt + 1) * jitter

\* except requests.exceptions.HTTPError: 429 sleeps, counts the attempt and
\* prints the two metrics; any other status returns None
RequestHttpError ==
  /\ InAttempt
  /\ MayFail
  /\ \E status \in {RATE_LIMITED} \cup OtherErrorStatuses, jitter \in Jitters :
       /\ api_query_metrics' = CountAttempt(api_query_metrics, version)
       /\ issued' = [issued EXCEPT ![version] = @ + 1]
       /\ failed_queries' = Failed
       /\ IF IsRateLimited(status)
            THEN /\ event' = [Response("http_error", status, Top, "backoff")
                                 EXCEPT !.backoff = BackoffTime(Top.attempt, jitter)]
                 /\ IF DebugPrintOk
                      THEN /\ stack' = SetTop([Top EXCEPT !.attempt = NextAttempt(@)])
                           /\ pc' = pc
                      ELSE /\ stack' = <<>>
                           /\ pc' = "crashed"
            ELSE /\ event' = Response("http_error", status, Top, "none")
                 /\ stack' = Pop
                 /\ pc' = pc
  /\ UNCHANGED << config, discovered_entries, vi, ci, output_file, calls,
                  recursed, inserted_level, returned >>

\* except Exception: requests.get or response.json() raised; return None
RequestException ==
  /\ InAttempt
  /\ MayFail
  /\ api_query_metrics' = CountAttempt(api_query_metrics, version)
  /\ issued' = [issued EXCEPT ![version] = @ + 1]
  /\ failed_queries' = Failed
  /\ stack' = Pop
  /\ event' = Response("exception", 0, Top, "none")
  /\ UNCHANGED << config, discovered_entries, pc, vi, ci, output_file, calls,
                  recursed, inserted_level, returned >>

\* the while condition fails: log "Maximum retries exceeded", return None
RetriesExceeded ==
  /\ pc = "harvest"
  /\ stack # <<>>
  /\ Top.phase = "query"
  /\ ~RetryAllowed(Top.attempt)
  /\ stack' = Pop
  /\ event' = Event("retries_exceeded", Top, "none")
  /\ UNCHANGED << config, discovered_entries, api_query_metrics, pc, vi, ci,
                  output_file, issued, calls, recursed, inserted_level, failed_queries, returned >>

\* ------------------------------------------------------ crawl, the for loop
\* mutant: the membership test is dropped
IsNew_Always(entry, known) == TRUE

\* if entry not in self.discovered_entries[api_version]
IsNew(entry, known) == entry \notin known

\* mutant: the prefix that was queried is added with the entry
Insert_WithPrefix(entries, api, entry) ==
  [entries EXCEPT ![api] = @ \cup {entry, Top.prefix}]

\* mutant: the entry is added to the set of every version
Insert_AllVersions(entries, api, entry) ==
  [a \in DOMAIN entries |-> entries[a] \cup {entry}]

\* mutant: the add is lost, the set stays as the test saw it
Insert_Lost(entries, api, entry) == entries

\* mutant: the set is assigned, not added to
Insert_Replace(entries, api, entry) == [entries EXCEPT ![api] = {entry}]

\* self.discovered_entries[api_version].add(entry)
Insert(entries, api, entry) == [entries EXCEPT ![api] = @ \cup {entry}]

\* one iteration: a new entry is added and crawled one level deeper
IterateEntry ==
  /\ pc = "harvest"
  /\ stack # <<>>
  /\ Top.phase = "iterate"
  /\ Top.results # <<>>
  /\ LET entry == Head(Top.results)
         rest == [Top EXCEPT !.results = Tail(@)]
     IN  IF IsNew(entry, discovered_entries[version])
           THEN /\ discovered_entries' = Insert(discovered_entries, version, entry)
                /\ stack' = Append(SetTop(rest), Frame(entry, Top.level + 1))
                /\ recursed' = [recursed EXCEPT ![version][entry] = @ + 1]
                /\ inserted_level' = [inserted_level EXCEPT ![version][entry] = Top.level]
                /\ event' = Event("insert", Frame(entry, Top.level + 1), "none")
           ELSE /\ stack' = SetTop(rest)
                /\ event' = Event("skip", Frame(entry, Top.level), "none")
                /\ UNCHANGED << discovered_entries, recursed, inserted_level >>
  /\ UNCHANGED << config, api_query_metrics, pc, vi, ci, output_file, issued,
                  calls, failed_queries, returned >>

\* the loop is over: sleep(self.pause * variation), return
CrawlPace ==
  /\ pc = "harvest"
  /\ stack # <<>>
  /\ Top.phase = "iterate"
  /\ Top.results = <<>>
  /\ event' = Event("pace", Top, "pace")
  /\ stack' = Pop
  /\ UNCHANGED << config, discovered_entries, api_query_metrics, pc, vi, ci,
                  output_file, issued, calls, recursed, inserted_level, failed_queries, returned >>

\* ---------------------------------------------------------- _save_results
\* mutant: a failure of open or write is caught and the run ends normally
SaveResults_Swallow ==
  /\ pc = "save"
  /\ LET text == SavedText(supported_apis, discovered_entries, 1)
     IN  \/ /\ output_file' = text
            /\ event' = [NoEvent EXCEPT !.op = "saved"]
         \/ /\ output_file' = output_file
            /\ event' = [NoEvent EXCEPT !.op = "open_failed"]
         \/ \E written \in 0..(Len(text) - 1) :
              /\ output_file' = SubSeq(text, 1, written)
              /\ event' = [NoEvent EXCEPT !.op = "write_failed"]
  /\ pc' = "done"
  /\ UNCHANGED << config, discovered_entries, api_query_metrics, vi, ci, stack,
                  issued, calls, recursed, inserted_level, failed_queries, returned >>

\* open(..., "w") truncates; each write may raise; the exception leaves
\* start_harvesting. written = number of lines that reached the file
SaveResults ==
  /\ pc = "save"
  /\ LET text == SavedText(supported_apis, discovered_entries, 1)
     IN  \/ /\ output_file' = text
            /\ pc' = "done"
            /\ event' = [NoEvent EXCEPT !.op = "saved"]
         \/ /\ output_file' = output_file
            /\ pc' = "io_failed"
            /\ event' = [NoEvent EXCEPT !.op = "open_failed"]
         \/ \E written \in 0..(Len(text) - 1) :
              /\ output_file' = SubSeq(text, 1, written)
              /\ pc' = "io_failed"
              /\ event' = [NoEvent EXCEPT !.op = "write_failed"]
  /\ UNCHANGED << config, discovered_entries, api_query_metrics, vi, ci, stack,
                  issued, calls, recursed, inserted_level, failed_queries, returned >>

Next ==
  \/ StartCrawl
  \/ NextVersion
  \/ CrawlDepthReturn
  \/ PerformQueryCall
  \/ RequestOk
  \/ RequestHttpError
  \/ RequestException
  \/ RetriesExceeded
  \/ IterateEntry
  \/ CrawlPace
  \/ SaveResults

Spec == Init /\ [][Next]_vars

\* The harvest of two versions served by one fixed table that never fails,
\* the first with the seed loop in the order of ascii_lowercase, the second
\* with the seed loop in any order.
SeedOrders(seq) ==
  { p \in [1..Len(seq) -> Range(seq)] : \A i, j \in 1..Len(seq) : p[i] = p[j] => i = j }
TablePrefixes == { <<Seeds[i]>> : i \in 1..Len(Seeds) } \cup TableEntries
InitOrder ==
  /\ supported_apis = <<"v1", "v2">>
  /\ max_attempts = 0
  /\ depth_limit \in 0..MaxDepth
  /\ seed_order \in { [api \in {"v1", "v2"} |-> IF api = "v1" THEN Seeds ELSE p] :
                        p \in SeedOrders(Seeds) }
  /\ api_table \in [TablePrefixes -> SeqsUpTo(TableEntries, 1)]
  /\ discovered_entries = [api \in Range(supported_apis) |-> {}]
  /\ api_query_metrics = [api \in Range(supported_apis) |-> 0]
  /\ pc = "harvest"
  /\ vi = 1
  /\ ci = 1
  /\ stack = <<>>
  /\ output_file = OldFile
  /\ issued = [api \in Range(supported_apis) |-> 0]
  /\ calls = [api \in Range(supported_apis) |-> 0]
  /\ recursed = [api \in Range(supported_apis) |-> [e \in TableEntries |-> 0]]
  /\ inserted_level = [api \in Range(supported_apis) |-> [e \in TableEntries |-> NotInserted]]
  /\ failed_queries = 0
  /\ returned = [api \in Range(supported_apis) |-> {}]
  /\ event = NoEvent

NextOrder ==
  \/ StartCrawl
  \/ NextVersion
  \/ CrawlDepthReturn
  \/ PerformQueryCall
  \/ RequestOk
  \/ IterateEntry
  \/ CrawlPace

SpecOrder == InitOrder /\ [][NextOrder]_vars

\* the interpreter always takes the next step of a running program
FairSpec == Spec /\ WF_vars(Next)

\* ------------------------------------------------------------------ claims
IsRequest == event.op = "request"
RateLimitedResponse ==
  IsRequest /\ event.outcome = "http_error" /\ event.status = RATE_LIMITED
FatalResponse ==
  /\ IsRequest
  /\ \/ event.outcome = "http_error" /\ event.status # RATE_LIMITED
     \/ event.outcome = "exception"
Finished == pc \in {"done", "io_failed", "crashed"}

\* C1: every request is issued for a crawl frame of depth 0..depth_limit;
\* none is issued for a frame of depth > depth_limit.
C1_DepthBound == IsRequest => event.level \in 0..depth_limit

\* a frame one level below the limit was entered and returned, no request made
C1_Witness ==
  /\ event.op = "depth_return"
  /\ event.level = depth_limit + 1
  /\ depth_limit = MaxDepth

\* C2: per version, crawl recurses into an entry only in the step that
\* newly inserts it into the version's set, so at most once per run.
C2_RecurseOnceOnInsert ==
  [][\A v \in Versions, e \in Entries :
       recursed'[v][e] # recursed[v][e] =>
         /\ recursed[v][e] = 0
         /\ recursed'[v][e] = 1
         /\ e \notin discovered_entries[v]
         /\ e \in discovered_entries'[v]]_vars

\* the query for an entry returned that same entry, and it was skipped
C2_Witness ==
  /\ event.op = "skip"
  /\ stack # <<>>
  /\ Top.level > 0
  /\ Top.prefix = event.prefix
  /\ recursed[event.version][event.prefix] = 1

\* C3: a call of _perform_query makes at most max_attempts + 1 requests;
\* answered 429 each time it goes on to the next attempt until it has made
\* exactly max_attempts + 1, and then returns None.
C3_RetryBound ==
  /\ IsRequest => event.attempt <= max_attempts
  /\ RateLimitedResponse =>
       /\ pc = "harvest"
       /\ Len(stack) = event.level + 1
       /\ Top.phase = "query"
       /\ Top.attempt = event.attempt + 1
  /\ event.op = "retries_exceeded" =>
       /\ event.attempt = max_attempts + 1
       /\ Len(stack) = event.level

\* C4: an HTTP error other than 429, or an exception of the request or of
\* the body parse, ends the call at once: the crawl frame has returned, no
\* sleep was made, whatever the attempt index.
C4_FatalNoRetry ==
  FatalResponse =>
    /\ event.sleep = "none"
    /\ pc = "harvest"
    /\ Len(stack) = event.level

\* a fatal response on a retry (after a 429)
C4_Witness == FatalResponse /\ event.attempt > 0 /\ event.status # 0

\* C5: a failing request only ends the crawl frame that made it: the run
\* goes on, the callers' frames stay, the discovered entries stay, and the
\* run ends having written the output.
C5_ErrorsPruneOneBranch ==
  /\ (IsRequest /\ event.outcome # "ok") =>
       /\ pc = "harvest"
       /\ Len(stack) \in {event.level, event.level + 1}
  /\ Finished => pc \in {"done", "io_failed"}

\* C6: each version's api_query_metrics equals the number of requests made
\* for it so far and never decreases.
C6_MetricCountsAttempts ==
  /\ [](\A v \in Versions : api_query_metrics[v] = issued[v])
  /\ [][\A v \in Versions : api_query_metrics'[v] >= api_query_metrics[v]]_vars

\* the second version's retries were exhausted: failed attempts are counted
C6_Witness ==
  /\ event.op = "retries_exceeded"
  /\ vi = 2
  /\ max_attempts > 0
  /\ api_query_metrics[version] = calls[version] + max_attempts

\* the most steps a crawl call entered at level l can take: the depth test,
\* max_attempts + 1 requests, the return or the for loop over at most
\* MaxResults entries, each with a crawl one level deeper, and the pacing
RECURSIVE CrawlCost(_)
CrawlCost(l) ==
  IF l > depth_limit THEN 1
  ELSE 1 + (max_attempts + 1) + 1 + MaxResults * (1 + CrawlCost(l + 1)) + 1
IterCost(l, n) == n * (1 + CrawlCost(l + 1)) + 1
QueryCost(l, a) == (max_attempts + 1 - a) + 1 + IterCost(l, MaxResults)
FrameCost(f) ==
  CASE f.phase = "enter" -> CrawlCost(f.level)
    [] f.phase = "query" -> QueryCost(f.level, f.attempt)
    [] f.phase = "iterate" -> IterCost(f.level, Len(f.results))
RECURSIVE StackCost(_)
StackCost(st) == IF st = <<>> THEN 0 ELSE FrameCost(Head(st)) + StackCost(Tail(st))
SeedCost == 1 + CrawlCost(0)
\* the steps start_harvesting has left at most
Rank ==
  CASE pc = "harvest" ->
         LET cost == SeedCost
         IN  2 + (Len(supported_apis) - vi) * (1 + NumSeeds * cost)
               + (NumSeeds + 1 - ci) * cost + StackCost(stack)
    [] pc = "save" -> 1
    [] OTHER -> 0

\* C7: start_harvesting terminates, whatever lists (of bounded length) the
\* API returns and whichever attempts it rate-limits: a measure computed from
\* depth_limit, max_attempts and the list length is a natural number, falls
\* with every step, and a step can be taken until the run has ended.
C7_Terminates ==
  /\ [](Rank \in Nat)
  /\ [](~Finished => ENABLED Next)
  /\ [][Rank' < Rank]_vars

\* a run ended after finding every entry in every version and a failed query
C7_Witness ==
  /\ pc = "done"
  /\ \A v \in Versions : discovered_entries[v] = Entries
  /\ failed_queries > 0

\* C8: every version in order and, per version, every seed in order is
\* crawled at depth 0 whatever earlier branches returned, so the run does
\* not end before the last seed of the last version; a version for which no
\* suggestion was returned has had one _perform_query call per seed.
C8_SeedCoverage ==
  /\ pc # "harvest" => (vi = Len(supported_apis) /\ ci = Len(Seeds) + 1)
  /\ pc # "harvest" =>
       \A v \in Versions :
         discovered_entries[v] = {} => calls[v] = Len(Seeds)

\* where the section of the i-th version starts in the output
RECURSIVE SectionStart(_)
SectionStart(i) ==
  IF i = 1 THEN 1
  ELSE SectionStart(i - 1) + 1
       + Cardinality(discovered_entries[supported_apis[i - 1]])

\* C9: the saved file is, for each configured version in order, the line
\* "--- version ---" followed by the version's entries, each once, in
\* ascending order; an empty set gives the header alone.
C9_SortedSections ==
  pc = "done" =>
    /\ Len(output_file) = SectionStart(Len(supported_apis) + 1) - 1
    /\ \A i \in 1..Len(supported_apis) :
         LET p == SectionStart(i)
             D == discovered_entries[supported_apis[i]]
             n == Cardinality(D)
         IN  /\ output_file[p] = << "--- ", supported_apis[i], " ---" >>
             /\ { output_file[p + k] : k \in 1..n } = D
             /\ \A k \in 1..(n - 1) :
                  StrLess(output_file[p + k], output_file[p + k + 1])

\* saved: one version with two entries to sort, one with none
C9_Witness ==
  /\ pc = "done"
  /\ \E v \in Versions : Cardinality(discovered_entries[v]) = 2
  /\ \E v \in Versions : discovered_entries[v] = {}

\* C10: _save_results runs only after the last seed of the last version;
\* it changes neither the discovered entries nor the metrics; when open or
\* write fails start_harvesting fails too, when it returns the file is whole.
C10_SaveFailureSurfaced ==
  /\ [](pc \in {"save", "done", "io_failed"} =>
         /\ vi = Len(supported_apis)
         /\ ci = Len(Seeds) + 1
         /\ stack = <<>>)
  /\ [](event.op \in {"open_failed", "write_failed"} => pc = "io_failed")
  /\ [](pc = "done" => event.op = "saved")
  /\ [][pc = "save" =>
         /\ discovered_entries' = discovered_entries
         /\ api_query_metrics' = api_query_metrics
         /\ pc' \in {"done", "io_failed"}]_vars

\* a write failed part way through a non-empty harvest
C10_Witness ==
  /\ pc = "io_failed"
  /\ event.op = "write_failed"
  /\ output_file # <<>>
  /\ \E v \in Versions : discovered_entries[v] # {}

\* C11: every entry of a version's set was in the "results" of a 2xx
\* response to a request for that version; failed requests, requests for
\* another version and the seed letters themselves add nothing.
C11_OnlyReturnedEntries ==
  \A v \in Versions : discovered_entries[v] \subseteq returned[v]

\* an entry was inserted for the second version after a query had failed,
\* while the seed that was queried is in no set
C11_Witness ==
  /\ event.op = "insert"
  /\ vi = 2
  /\ failed_queries > 0
  /\ event.prefix \in returned[version]
  /\ \A v \in Versions : <<"b">> \notin discovered_entries[v]
  /\ calls[version] = 2

\* C12: against a fixed table API without failures the final set of a
\* version does not depend on the order its seeds were crawled in: the two
\* versions end with the same set.
C12_SeedOrderIrrelevant ==
  pc = "save" => discovered_entries["v1"] = discovered_entries["v2"]

\* the step is about the same _perform_query / crawl call as the step before
SameCall == /\ event'.version = event.version
            /\ event'.prefix = event.prefix
            /\ event'.level = event.level

\* C13: a backoff sleep after a 429 is always followed by a further request
\* attempt for the same version and prefix, never by a return of None.
C13_BackoffThenRetry ==
  [][event.sleep = "backoff" => (event'.op = "request" /\ SameCall)]_vars

\* C14: crawl runs the pacing sleep only in a call whose query returned a
\* non-empty "results" list: a pacing sleep never directly follows the
\* call's own request, which it does when the list was empty.
C14_PaceOnlyAfterEntries ==
  [][(event'.op = "pace" /\ SameCall) => event.op # "request"]_vars

\* C15: a step taken while a version is processed changes neither the set
\* nor the request count of any other version, and an entry that is not in
\* the processed version's set is inserted and recursed into, whether or not
\* another version's set holds it.
C15_VersionsIsolated ==
  [][(pc = "harvest" /\ stack # <<>>) =>
       /\ \A v \in Versions \ {version} :
            /\ discovered_entries'[v] = discovered_entries[v]
            /\ api_query_metrics'[v] = api_query_metrics[v]
       /\ (Top.phase = "iterate" /\ Top.results # <<>>
             /\ Head(Top.results) \notin discovered_entries[version]) =>
            /\ Head(Top.results) \in discovered_entries'[version]
            /\ recursed'[version][Head(Top.results)] = 1
            /\ stack'[Len(stack')].prefix = Head(Top.results)]_vars

\* the second version inserted an entry the first version's set holds, after
\* a 429 was handled
C15_Witness ==
  /\ event.op = "insert"
  /\ vi = 2
  /\ event.prefix \in discovered_entries[supported_apis[1]]
  /\ event.prefix \in discovered_entries[supported_apis[2]]
  /\ Top.prefix = event.prefix
  /\ failed_queries > 0
  /\ api_query_metrics[supported_apis[1]] > 0

\* C17: the set of a version starts empty and no step removes an entry from
\* it: after every step it is a superset of what it was before.
C17_SetsOnlyGrow ==
  /\ [](pc = "harvest" /\ vi = 1 /\ ci = 1 /\ stack = <<>> =>
          \A v \in Versions : discovered_entries[v] = {})
  /\ [][\A v \in Versions : discovered_entries[v] \subseteq discovered_entries'[v]]_vars

\* a second entry was added to a set, and the run went on to write the file
C17_Witness ==
  /\ pc = "done"
  /\ \E v \in Versions : Cardinality(discovered_entries[v]) = 2

\* the entries of version v added by a frame of a level below depth_limit
InsertedBelowLimit(v) ==
  { e \in TableEntries : /\ inserted_level[v][e] # NotInserted
                         /\ inserted_level[v][e] < depth_limit }

\* the run is over: start_harvesting returned or an exception left it
RunEnded == pc \in {"save", "done", "io_failed", "crashed"}

\* C18: _perform_query is called for an entry only by the crawl call of the
\* frame that added it, a frame of a level below depth_limit, and when the
\* run is over the number of _perform_query calls of each version is the
\* number of seeds plus the number of entries added below depth_limit.
C18_QueryCount ==
  /\ [][(event'.op = "query" /\ event'.level > 0) =>
          /\ event'.prefix \in InsertedBelowLimit(event'.version)
          /\ inserted_level[event'.version][event'.prefix] = event'.level - 1]_vars
  /\ [](RunEnded =>
          \A v \in Versions :
            calls[v] = NumSeeds + Cardinality(InsertedBelowLimit(v)))

C19_BackoffRange ==
  /\ RateLimitedResponse =>
       /\ event.attempt \in 0..max_attempts
       /\ \E jitter \in Jitters :
            event.backoff = pause * (event.attempt + 1) * jitter
       /\ event.backoff >= 5 * pause * (event.attempt + 1)
       /\ event.backoff <= 15 * pause * (event.attempt + 1)
  /\ (InAttempt /\ MayFail) =>
       \A jitter \in Jitters :
         ENABLED (RequestHttpError /\ event'.sleep = "backoff"
                    /\ event'.backoff = pause * (Top.attempt + 1) * jitter)

\* the second 429 of a call slept the shortest backoff of attempt index 1
C19_Witness ==
  /\ RateLimitedResponse
  /\ event.attempt = 1
  /\ event.backoff = 5 * pause * 2
  /\ issued[event.version] >= 2
====
